---- MODULE Spec2Model ----
(***************************************************************************)
(* Collatz shrub: the recurrence (next_n), the trajectory generator        *)
(* (collatz_path_3d), and the sampling done by plot_shrub (collatz.py)     *)
(* and update_shrub (collatz_dash.py).                                     *)
(*                                                                         *)
(* Heights are IEEE doubles.  Every height this program produces is an     *)
(* integer multiple of 2^-55, so a height is kept as that integer, written *)
(* in three limbs of 20 bits <<low, middle, high>>, and the rounding of    *)
(* the floating-point multiplication and subtraction is computed on it.    *)
(* Planar coordinates involve log, cos and sin; they are kept as terms.    *)
(***************************************************************************)
EXTENDS Integers, Sequences, FiniteSets, TLC

\* ------------------------------------------------------------------------
\* Bounds of the model
\* ------------------------------------------------------------------------

\* direct calls of next_n and collatz_path_3d use arguments 1 .. MaxStart-1
MaxStart == 20

\* iterations of one trajectory the model follows before it stops looking
MaxSteps == 25

\* plot_shrub is called with max_start in 0 .. MaxCliStart
MaxCliStart == 5

\* plot_shrub is called with n_samples in 0 .. MaxCliSamples
MaxCliSamples == 4

\* ------------------------------------------------------------------------
\* IEEE double arithmetic on multiples of 2^-55
\* ------------------------------------------------------------------------

LimbBase == 2^20

\* significand bits of a double
MantBits == 53

RECURSIVE BitLen(_)
BitLen(v) == IF v = 0 THEN 0 ELSE 1 + BitLen(v \div 2)

\* carry the low and middle limbs into range; the high limb keeps the rest
Normalise(p) ==
    LET c0 == p[1] \div LimbBase
        m1 == p[2] + c0
        c1 == m1 \div LimbBase
    IN  <<p[1] % LimbBase, m1 % LimbBase, p[3] + c1>>

\* number of low bits that do not fit a 53-bit significand
ExcessBits(p) ==
    LET len == IF p[3] # 0 THEN 40 + BitLen(p[3])
               ELSE IF p[2] # 0 THEN 20 + BitLen(p[2])
               ELSE BitLen(p[1])
    IN  IF len > MantBits THEN len - MantBits ELSE 0

\* round to nearest, ties to even, to a 53-bit significand
RoundDouble(p) ==
    LET s    == ExcessBits(p)
        unit == 2^s
        rem  == p[1] % unit
        odd  == (p[1] \div unit) % 2 = 1
        up   == s > 0 /\ (2 * rem > unit \/ (2 * rem = unit /\ odd))
    IN  Normalise(<<p[1] - rem + (IF up THEN unit ELSE 0), p[2], p[3]>>)

\* k * f for an int k (exactly representable) and a double f
fmul(k, f) == RoundDouble(Normalise(<<k * f[1], k * f[2], k * f[3]>>))

\* a < b
flt(a, b) ==
    \/ a[3] < b[3]
    \/ a[3] = b[3] /\ a[2] < b[2]
    \/ a[3] = b[3] /\ a[2] = b[2] /\ a[1] < b[1]

\* a - b for b <= a
fsub(a, b) ==
    LET d0 == a[1] - b[1]
        b0 == IF d0 < 0 THEN 1 ELSE 0
        d1 == a[2] - b[2] - b0
        b1 == IF d1 < 0 THEN 1 ELSE 0
    IN  RoundDouble(<<d0 + b0 * LimbBase, d1 + b1 * LimbBase, a[3] - b[3] - b1>>)

FZero == <<0, 0, 0>>

\* 0.15 = 0x1.3333333333333p-3 = 0x13333333333333 * 2^-55
Z_STEP == <<209715, 209715, 4915>>

\* 0.2 = 0x1.999999999999ap-3 = 0x1999999999999A * 2^-55
DASH_Z_STEP == <<629146, 629145, 6553>>

\* ------------------------------------------------------------------------
\* Program constants
\* ------------------------------------------------------------------------

Schemes == {"binary", "ternary"}

\* the reference integer of plot_shrub and update_shrub
hero(scheme) == IF scheme = "binary" THEN 837799 ELSE 91

\* update_shrub: max_start = max(10, ...)
DASH_MIN_MAX_START == 10

\* update_shrub: int(n_starts or 1000)
DASH_DEFAULT_N_STARTS == 1000

\* ------------------------------------------------------------------------
\* The recurrence
\* ------------------------------------------------------------------------

\* mutant: the odd branch of the binary rule computes 3n - 1
next_n_odd_minus(n, scheme) ==
    IF scheme = "binary"
    THEN IF n % 2 = 0 THEN n \div 2 ELSE 3 * n - 1
    ELSE LET r == n % 3
         IN  IF r = 0 THEN n \div 3
             ELSE IF r = 1 THEN (4 * n + 1) \div 3
             ELSE (2 * n + 2) \div 3

\* mutant: the residue 1 and residue 2 branches of the ternary rule are swapped
next_n_swapped(n, scheme) ==
    IF scheme = "binary"
    THEN IF n % 2 = 0 THEN n \div 2 ELSE 3 * n + 1
    ELSE LET r == n % 3
         IN  IF r = 0 THEN n \div 3
             ELSE IF r = 1 THEN (2 * n + 2) \div 3
             ELSE (4 * n + 1) \div 3

\* Python's // and % on the non-negative operands that occur here
next_n(n, scheme) ==
    IF scheme = "binary"
    THEN IF n % 2 = 0 THEN n \div 2 ELSE 3 * n + 1
    ELSE LET r == n % 3
         IN  IF r = 0 THEN n \div 3
             ELSE IF r = 1 THEN (4 * n + 1) \div 3
             ELSE (2 * n + 2) \div 3

\* next_n of collatz_dash.py
dash_next_n(n, scheme) ==
    IF scheme = "binary"
    THEN IF n % 2 = 0 THEN n \div 2 ELSE 3 * n + 1
    ELSE LET r == n % 3
         IN  IF r = 0 THEN n \div 3
             ELSE IF r = 1 THEN (4 * n + 1) \div 3
             ELSE (2 * n + 1) \div 3

\* ------------------------------------------------------------------------
\* State
\* ------------------------------------------------------------------------

VARIABLES
    pc,          \* "idle", "advanced", "drawing", "loop", "returned", "shown", "raised"
    caller,      \* the entry point that was called
    module,      \* "collatz" (collatz.py) or "dash" (collatz_dash.py)
    scheme,
    n_samples,   \* plot_shrub's n_samples, update_shrub's n_starts after coercion
    max_start,
    starts,      \* the list of starts
    idx,         \* position of the for loop over starts
    traces,      \* number of polylines handed to the plot
    start,       \* argument of the running collatz_path_3d
    n,
    step_count,
    angle,       \* the turns added to the initial heading, in order
    xs,
    ys,
    zs,
    vals,        \* history: the values n has taken in this trajectory
    err,         \* the exception that ended the call, or "none"
    args,        \* the arguments plot_shrub or update_shrub was called with
    ret          \* next_n's argument and results

vars == <<pc, caller, module, scheme, n_samples, max_start, starts, idx, traces,
          start, n, step_count, angle, xs, ys, zs, vals, err, args, ret>>

pathVars == <<start, n, step_count, angle, xs, ys, zs, vals>>
plotVars == <<n_samples, max_start, starts, idx, traces>>

\* a planar coordinate is a term: the coordinate of point number `base` plus
\* 1/ln(len_arg + 1) times the cos (xs) or sin (ys) of the heading after
\* `turns` turns; PlanarZero is the literal 0.0
PlanarZero == [base |-> 0, len_arg |-> 0, turns |-> 0]

NoRet == [arg |-> 0, collatz |-> 0, dash |-> 0]

NoArgs == [count |-> 0, max_start |-> 0]

Init ==
    /\ pc = "idle"
    /\ caller = "none"
    /\ module = "collatz"
    /\ scheme = "binary"
    /\ n_samples = 0
    /\ max_start = 0
    /\ starts = <<>>
    /\ idx = 0
    /\ traces = 0
    /\ start = 0
    /\ n = 0
    /\ step_count = 0
    /\ angle = <<>>
    /\ xs = <<>>
    /\ ys = <<>>
    /\ zs = <<>>
    /\ vals = <<>>
    /\ err = "none"
    /\ args = NoArgs
    /\ ret = NoRet

\* ------------------------------------------------------------------------
\* next_n called on its own, in both files
\* ------------------------------------------------------------------------

call_next_n ==
    /\ pc = "idle"
    /\ \E m \in 1 .. MaxStart - 1, s \in Schemes :
         /\ scheme' = s
         /\ ret' = [arg |-> m, collatz |-> next_n(m, s), dash |-> dash_next_n(m, s)]
    /\ pc' = "advanced"
    /\ caller' = "next_n"
    /\ UNCHANGED <<module, err, args>>
    /\ UNCHANGED pathVars
    /\ UNCHANGED plotVars

\* ------------------------------------------------------------------------
\* collatz_path_3d
\* ------------------------------------------------------------------------

\* the state after the lines before the while loop
PathEntry(st) ==
    /\ start' = st
    /\ n' = st
    /\ step_count' = 0
    /\ angle' = <<>>
    /\ xs' = <<PlanarZero>>
    /\ ys' = <<PlanarZero>>
    /\ zs' = <<FZero>>
    /\ vals' = <<st>>

call_collatz_path_3d ==
    /\ pc = "idle"
    /\ \E mod \in {"collatz", "dash"}, st \in 1 .. MaxStart - 1, s \in Schemes :
         /\ module' = mod
         /\ scheme' = s
         /\ PathEntry(st)
    /\ pc' = "loop"
    /\ caller' = "collatz_path_3d"
    /\ UNCHANGED <<err, args, ret>>
    /\ UNCHANGED plotVars

\* mutant: the turn is decided by the value the iteration advances to
Turn_by_next(cur, s) ==
    IF s = "binary"
    THEN IF next_n(cur, s) % 2 = 0 THEN "left" ELSE "right"
    ELSE LET r == next_n(cur, s) % 3
         IN  IF r = 0 THEN "left" ELSE IF r = 1 THEN "right" ELSE "half_left"

\* the turn of one iteration, decided by the current value
Turn(cur, s) ==
    IF s = "binary"
    THEN IF cur % 2 = 0 THEN "left" ELSE "right"
    ELSE LET r == cur % 3
         IN  IF r = 0 THEN "left" ELSE IF r = 1 THEN "right" ELSE "half_left"

\* ------------------------------------------------------------------------
\* The heading: a signed double, its magnitude an integer multiple of 2^-56
\* ------------------------------------------------------------------------

\* math.radians(13.17) = 0x1.d6c0c48061563p-3
LEFT_RAD == [neg |-> FALSE, mag |-> <<797382, 100608, 15064>>]

\* math.radians(16.0) = 0x1.1df46a2529d39p-2
RIGHT_RAD == [neg |-> FALSE, mag |-> <<685284, 108692, 18301>>]

\* math.radians(-75.0) = -0x1.4f1a6c638d03fp+0
INIT_HEADING == [neg |-> TRUE, mag |-> <<852976, 443960, 85786>>]

\* collatz_dash.py: math.radians(8.65) = 0x1.353045f82ed33p-3
DASH_LEFT_RAD == [neg |-> FALSE, mag |-> <<383590, 35824, 9894>>]

\* -v
fneg(v) == IF v.mag = FZero THEN v ELSE [neg |-> ~v.neg, mag |-> v.mag]

\* 0.5 * v, for a v whose magnitude is even in units of 2^-56
fhalf(v) ==
    LET m == v.mag
    IN  [neg |-> v.neg,
         mag |-> <<(m[1] \div 2) + (m[2] % 2) * (LimbBase \div 2),
                   (m[2] \div 2) + (m[3] % 2) * (LimbBase \div 2),
                   m[3] \div 2>>]

\* the exact sum of two signed values
ExactSum(a, b) ==
    LET diff(p, q) ==
            LET d0 == p[1] - q[1]
                b0 == IF d0 < 0 THEN 1 ELSE 0
                d1 == p[2] - q[2] - b0
                b1 == IF d1 < 0 THEN 1 ELSE 0
            IN  <<d0 + b0 * LimbBase, d1 + b1 * LimbBase, p[3] - q[3] - b1>>
    IN  IF a.neg = b.neg
        THEN [neg |-> a.neg,
              mag |-> Normalise(<<a.mag[1] + b.mag[1], a.mag[2] + b.mag[2],
                                  a.mag[3] + b.mag[3]>>)]
        ELSE IF a.mag = b.mag THEN [neg |-> FALSE, mag |-> FZero]
        ELSE IF flt(b.mag, a.mag) THEN [neg |-> a.neg, mag |-> diff(a.mag, b.mag)]
        ELSE [neg |-> b.neg, mag |-> diff(b.mag, a.mag)]

\* a + b in double arithmetic
fadd(a, b) ==
    LET e == ExactSum(a, b)
    IN  [neg |-> e.neg, mag |-> RoundDouble(e.mag)]

\* the value one turn adds to the heading
\*   collatz.py:      _left, -_right, 0.5 * _left
\*   collatz_dash.py: left_rad, -right_rad, 0.5 * left_rad
TurnValue(tag, mod) ==
    LET left == IF mod = "dash" THEN DASH_LEFT_RAD ELSE LEFT_RAD
    IN  IF tag = "left" THEN left
        ELSE IF tag = "right" THEN fneg(RIGHT_RAD)
        ELSE fhalf(left)

\* the value of the variable angle after the first k turns: angle += turn
RECURSIVE HeadingAfter(_, _, _)
HeadingAfter(turns, k, mod) ==
    IF k = 0 THEN INIT_HEADING
    ELSE fadd(HeadingAfter(turns, k - 1, mod), TurnValue(turns[k], mod))

\* mutant: the height is computed before the counter is incremented
Height_before_increment(count, mod) ==
    fmul(count - 1, IF mod = "dash" THEN DASH_Z_STEP ELSE Z_STEP)

\* z = step_count * Z_STEP
Height(count, mod) == fmul(count, IF mod = "dash" THEN DASH_Z_STEP ELSE Z_STEP)

\* one iteration of the while loop
PathStep ==
    /\ pc = "loop"
    /\ n # 1
    /\ step_count < MaxSteps
    /\ LET nxt == IF module = "dash" THEN dash_next_n(n, scheme) ELSE next_n(n, scheme)
           pt  == [base |-> Len(xs), len_arg |-> nxt, turns |-> Len(angle) + 1]
       IN  /\ angle' = Append(angle, Turn(n, scheme))
           /\ xs' = Append(xs, pt)
           /\ ys' = Append(ys, pt)
           /\ step_count' = step_count + 1
           /\ zs' = Append(zs, Height(step_count + 1, module))
           /\ n' = nxt
           /\ vals' = Append(vals, nxt)
    /\ UNCHANGED <<pc, caller, module, scheme, start, err, args, ret>>
    /\ UNCHANGED plotVars

\* the loop is left with n = 1: return xs, ys, zs to the caller, which goes on
\*   plot_shrub:   ax.plot(..., linewidth=2.0/(n_samples/100))
\*   update_shrub: the labels read the undefined name vals for a sampled start;
\*                 the reference trajectory is added as it is
PathReturn ==
    /\ pc = "loop"
    /\ n = 1
    /\ CASE caller = "plot_shrub" ->
              IF n_samples = 0
              THEN /\ pc' = "raised"
                   /\ err' = "ZeroDivisionError"
                   /\ UNCHANGED <<idx, traces>>
              ELSE /\ pc' = "drawing"
                   /\ traces' = traces + 1
                   /\ idx' = idx + 1
                   /\ UNCHANGED err
         [] caller = "update_shrub" ->
              IF idx <= Len(starts)
              THEN /\ pc' = "raised"
                   /\ err' = "NameError"
                   /\ UNCHANGED <<idx, traces>>
              ELSE /\ pc' = "shown"
                   /\ traces' = traces + 1
                   /\ UNCHANGED <<idx, err>>
         [] OTHER ->
              /\ pc' = "returned"
              /\ UNCHANGED <<idx, traces, err>>
    /\ UNCHANGED <<caller, module, scheme, n_samples, max_start, starts, args, ret>>
    /\ UNCHANGED pathVars

\* ------------------------------------------------------------------------
\* Sampling
\* ------------------------------------------------------------------------

Range(f) == {f[i] : i \in DOMAIN f}

\* random.sample(population, k): every list of k distinct members can come out
RECURSIVE Sample(_, _)
Sample(population, k) ==
    IF k = 0 THEN {<<>>}
    ELSE UNION {{<<v>> \o rest : rest \in Sample(population \ {v}, k - 1)} : v \in population}

\* random.sample raises ValueError for a sample larger than the population
SampleRaises(population, k) == k > Cardinality(population)

\* if hero not in starts: starts += [hero]
WithHero(smp, s) == IF hero(s) \notin Range(smp) THEN smp \o <<hero(s)>> ELSE smp

\* the arguments plot_shrub is called with: <<n_samples, max_start>>
CliArgs ==
    ((0 .. MaxCliSamples) \X (0 .. MaxCliStart)) \cup {<<1, hero("ternary") + 1>>}

\* plot_shrub up to the for loop
plot_shrub ==
    /\ pc = "idle"
    /\ \E a \in CliArgs, s \in Schemes :
         LET population == 2 .. a[2] - 1
         IN  /\ scheme' = s
             /\ args' = [count |-> a[1], max_start |-> a[2]]
             /\ n_samples' = a[1]
             /\ max_start' = a[2]
             /\ IF SampleRaises(population, a[1])
                THEN /\ pc' = "raised"
                     /\ err' = "ValueError"
                     /\ UNCHANGED <<starts, idx>>
                ELSE /\ \E smp \in Sample(population, a[1]) : starts' = WithHero(smp, s)
                     /\ pc' = "drawing"
                     /\ idx' = 1
                     /\ UNCHANGED err
    /\ caller' = "plot_shrub"
    /\ module' = "collatz"
    /\ UNCHANGED <<traces, ret>>
    /\ UNCHANGED pathVars

\* the values of the n-starts and max-start fields update_shrub is called
\* with: <<n_starts, max_start>>; 0 stands for an empty field
DashArgs == {<<1, 2>>, <<1, 10>>, <<2, 10>>, <<0, 10>>}

\* max(1, int(n_starts or 1000))
CoerceNStarts(v) ==
    LET w == IF v = 0 THEN DASH_DEFAULT_N_STARTS ELSE v
    IN  IF w < 1 THEN 1 ELSE w

\* mutant: the lower limit of 10 is dropped
CoerceMaxStart_unclamped(v) == IF v = 0 THEN 1000000 ELSE v

\* max(10, int(max_start or 1_000_000))
CoerceMaxStart(v) ==
    LET w == IF v = 0 THEN 1000000 ELSE v
    IN  IF w < DASH_MIN_MAX_START THEN DASH_MIN_MAX_START ELSE w

Min(a, b) == IF a < b THEN a ELSE b

\* update_shrub up to the for loop
update_shrub ==
    /\ pc = "idle"
    /\ \E a \in DashArgs, s \in Schemes :
         LET ns == a[1]
             ms == a[2]
             population == 2 .. CoerceMaxStart(ms) - 1
             k == Min(CoerceNStarts(ns), Cardinality(population))
         IN  /\ scheme' = s
             /\ args' = [count |-> ns, max_start |-> ms]
             /\ n_samples' = CoerceNStarts(ns)
             /\ max_start' = CoerceMaxStart(ms)
             /\ IF SampleRaises(population, k)
                THEN /\ pc' = "raised"
                     /\ err' = "ValueError"
                     /\ UNCHANGED <<starts, idx>>
                ELSE /\ \E smp \in Sample(population, k) : starts' = smp
                     /\ pc' = "drawing"
                     /\ idx' = 1
                     /\ UNCHANGED err
    /\ caller' = "update_shrub"
    /\ module' = "dash"
    /\ UNCHANGED <<traces, ret>>
    /\ UNCHANGED pathVars

\* the head of the for loop over starts, and what follows the loop:
\*   plot_shrub shows the figure; update_shrub adds the reference trajectory
\*   when hero < max_start and returns the figure
ForStart ==
    /\ pc = "drawing"
    /\ IF idx <= Len(starts)
       THEN /\ PathEntry(starts[idx])
            /\ pc' = "loop"
            /\ UNCHANGED idx
       ELSE IF caller = "update_shrub" /\ hero(scheme) < max_start
       THEN /\ PathEntry(hero(scheme))
            /\ pc' = "loop"
            /\ UNCHANGED idx
       ELSE /\ pc' = "shown"
            /\ UNCHANGED idx
            /\ UNCHANGED pathVars
    /\ UNCHANGED <<caller, module, scheme, n_samples, max_start, starts, traces, err, args, ret>>

\* ------------------------------------------------------------------------
\* Specifications
\* ------------------------------------------------------------------------

Next ==
    \/ call_next_n
    \/ call_collatz_path_3d
    \/ PathStep
    \/ PathReturn
    \/ plot_shrub
    \/ update_shrub
    \/ ForStart

Spec == Init /\ [][Next]_vars

\* collatz_path_3d called on its own
LoopNext ==
    \/ call_collatz_path_3d
    \/ PathStep
    \/ PathReturn

\* the interpreter runs the loop on: an iteration that can be done is done
FairSpec ==
    /\ Init
    /\ [][LoopNext]_vars
    /\ WF_vars(PathStep)
    /\ WF_vars(PathReturn)

\* ------------------------------------------------------------------------
\* Properties
\* ------------------------------------------------------------------------

\* a call of collatz_path_3d of collatz.py on its own has returned
Returned == pc = "returned" /\ caller = "collatz_path_3d" /\ module = "collatz"

\* next_n was called on its own with an argument >= 2
Advanced(s) == pc = "advanced" /\ scheme = s /\ ret.arg >= 2

\* C1: under the binary rule next_n returns n/2 for an even n and 3n+1 for
\* an odd n, in both files, called on its own and inside the trajectory loop
\* of collatz.py; next_n(6) = 3 and next_n(7) = 22.
C1_BinaryRule ==
    /\ Advanced("binary") =>
         /\ ret.arg % 2 = 0 => 2 * ret.collatz = ret.arg /\ 2 * ret.dash = ret.arg
         /\ ret.arg % 2 = 1 => ret.collatz = 3 * ret.arg + 1 /\ ret.dash = 3 * ret.arg + 1
         /\ ret.arg = 6 => ret.collatz = 3
         /\ ret.arg = 7 => ret.collatz = 22
    /\ (pc \in {"loop", "returned"} /\ scheme = "binary") =>
         \A i \in 1 .. Len(vals) - 1 :
            IF vals[i] % 2 = 0 THEN 2 * vals[i + 1] = vals[i]
            ELSE vals[i + 1] = 3 * vals[i] + 1

C1_Witness == Advanced("binary") /\ ret.arg = 7 /\ ret.collatz = 22

\* the number of iterations of the rule that take m to 1
RECURSIVE stopping_time(_, _)
stopping_time(m, s) == IF m = 1 THEN 0 ELSE 1 + stopping_time(next_n(m, s), s)

\* the length and the first point of a returned trajectory, and the values
\* visited from 1 and from 6
TrajectoryShape ==
    /\ Len(zs) = stopping_time(start, scheme) + 1
    /\ Len(xs) = Len(zs) /\ Len(ys) = Len(zs)
    /\ xs[1] = PlanarZero /\ ys[1] = PlanarZero /\ zs[1] = FZero
    /\ start = 1 => Len(zs) = 1
    /\ (start = 6 /\ scheme = "binary") =>
          vals = <<6, 3, 10, 5, 16, 8, 4, 2, 1>> /\ Len(zs) = 9

\* C2 as stated: a returned trajectory has stopping_time(start) + 1 points,
\* starts at (0,0,0), and every consecutive z difference is exactly Z_STEP.
C2_ExactRise ==
    Returned =>
        /\ TrajectoryShape
        /\ \A k \in 1 .. Len(zs) - 1 : fsub(zs[k + 1], zs[k]) = Z_STEP

\* |a - b| is at most w units of 2^-55, for w below 2^20
Within(a, b, w) ==
    LET d == IF flt(a, b) THEN fsub(b, a) ELSE fsub(a, b)
    IN  d[3] = 0 /\ d[2] = 0 /\ d[1] <= w

\* C2 amended: a returned trajectory has stopping_time(start) + 1 points and
\* starts at (0,0,0); the k-th appended point has z = k * Z_STEP as the
\* floating-point product, z rises strictly, and a consecutive z difference is
\* Z_STEP up to one unit in the last place of the larger z, not exactly.
C2_RoundedRise ==
    Returned =>
        /\ TrajectoryShape
        /\ \A k \in 1 .. Len(zs) - 1 :
              /\ zs[k + 1] = fmul(k, Z_STEP)
              /\ flt(zs[k], zs[k + 1])
              /\ Within(fsub(zs[k + 1], zs[k]), Z_STEP, 2^ExcessBits(zs[k + 1]))

C2_Witness ==
    /\ Returned /\ start = 6 /\ scheme = "binary" /\ Len(zs) = 9
    /\ fsub(zs[4], zs[3]) # Z_STEP

\* C3: under the binary rule every trajectory from a start below MaxStart
\* reaches 1 and leaves the while loop.
C3_BinaryReachesOne ==
    (pc = "loop" /\ scheme = "binary" /\ start < MaxStart) ~> (n = 1 /\ pc # "loop")

C3_Witness ==
    /\ Returned /\ scheme = "binary" /\ start = 9 /\ step_count = 19
    /\ vals[Len(vals)] = 1

\* C4: trajectory generation never iterates forever.  The loop goes on while
\* n # 1, what it does next depends on n alone, and nothing else ends it (no
\* iteration ceiling, no DivergenceSuspected), so a generation that finishes
\* never comes back to a value it has visited.
C4_NeverIteratesForever ==
    (pc = "loop" /\ module = "collatz" /\ start >= 2) =>
        \A i, j \in 1 .. Len(vals) : i # j => vals[i] # vals[j]

\* C5 as stated: for n mod 3 = 1 the division of 4n+1 by 3 is exact.
C5_ExactDivision ==
    (Advanced("ternary") /\ ret.arg % 3 = 1) =>
        /\ (4 * ret.arg + 1) % 3 = 0
        /\ ret.collatz * 3 = 4 * ret.arg + 1

\* C5 amended: for n mod 3 = 1 the value 4n+1 leaves remainder 2, so the
\* division rounds down: next_n(n, "ternary") * 3 = 4n - 1, in both files.
C5_FloorDivision ==
    (Advanced("ternary") /\ ret.arg % 3 = 1) =>
        /\ (4 * ret.arg + 1) % 3 = 2
        /\ ret.collatz * 3 = 4 * ret.arg - 1
        /\ ret.dash * 3 = 4 * ret.arg - 1

C5_Witness == Advanced("ternary") /\ ret.arg = 7 /\ ret.collatz = 9

\* C6 as stated: next_n(6, "ternary") = 2 and next_n(4, "ternary") = 3.
C6_TernaryOfFourIsThree ==
    Advanced("ternary") =>
        /\ ret.arg = 6 => ret.collatz = 2 /\ ret.dash = 2
        /\ ret.arg = 4 => ret.collatz = 3 /\ ret.dash = 3

\* C6 amended: next_n(6, "ternary") = 2 and next_n(4, "ternary") = 5.
C6_TernaryOfFourIsFive ==
    Advanced("ternary") =>
        /\ ret.arg = 6 => ret.collatz = 2 /\ ret.dash = 2
        /\ ret.arg = 4 => ret.collatz = 5 /\ ret.dash = 5

C6_Witness == Advanced("ternary") /\ ret.arg = 4 /\ ret.collatz = 5

\* the sampling step of plot_shrub or update_shrub is over
Sampled == caller \in {"plot_shrub", "update_shrub"}

\* the starts that were drawn, without the reference integer plot_shrub adds
Drawn == IF caller = "plot_shrub" /\ Len(starts) > n_samples
         THEN SubSeq(starts, 1, Len(starts) - 1) ELSE starts

Distinct(q) == \A i, j \in 1 .. Len(q) : i # j => q[i] # q[j]

\* C7: a count above the population size max_start - 2 is clamped to it and
\* that many distinct starts are drawn, instead of failing, in both files.
C7_ClampsInsteadOfFailing ==
    (Sampled /\ max_start > 2 /\ n_samples > max_start - 2) =>
        /\ err # "ValueError"
        /\ Len(Drawn) = max_start - 2
        /\ Distinct(Drawn)

\* C8: the starts plot_shrub builds are pairwise distinct and lie in
\* [2, max_start), are at most count + 1, and hold the reference integer
\* whenever it is smaller than max_start.
C8_StartsDistinctInRange ==
    (caller = "plot_shrub" /\ max_start > 2 /\ err # "ValueError") =>
        /\ Distinct(starts)
        /\ \A i \in 1 .. Len(starts) : 2 <= starts[i] /\ starts[i] < max_start
        /\ Len(starts) <= n_samples + 1
        /\ hero(scheme) < max_start => hero(scheme) \in Range(starts)

\* C9 as stated: with max_start <= 2 the sampling step fails and produces no
\* sample, for every count, in both files.
C9_DegenerateRangeFails ==
    (Sampled /\ args.max_start <= 2) =>
        /\ pc = "raised" /\ err = "ValueError"
        /\ starts = <<>>

\* C9 amended: with max_start <= 2 the sampling step of plot_shrub fails
\* (ValueError) and produces no sample for every count >= 1; for count 0 it
\* draws the empty sample and the reference integer alone is appended;
\* update_shrub does not fail: it raises max_start to at least 10 and draws
\* min(n_starts, max_start - 2) distinct starts of [2, max_start).
C9_DegenerateRange ==
    /\ (caller = "plot_shrub" /\ args.max_start <= 2) =>
          IF args.count >= 1
          THEN pc = "raised" /\ err = "ValueError" /\ starts = <<>>
          ELSE err # "ValueError" /\ starts = <<hero(scheme)>>
    /\ (caller = "update_shrub" /\ args.max_start <= 2) =>
          /\ max_start >= DASH_MIN_MAX_START
          /\ err # "ValueError"
          /\ Len(starts) = Min(n_samples, max_start - 2)
          /\ Distinct(starts)
          /\ \A i \in 1 .. Len(starts) : 2 <= starts[i] /\ starts[i] < max_start

C9_Witness ==
    /\ caller = "plot_shrub" /\ args.max_start = 2 /\ args.count = 1
    /\ pc = "raised" /\ err = "ValueError"

\* C10: for every n >= 2 and each rule, next_n of collatz_dash.py and next_n
\* of collatz.py return the same value.
C10_SameRecurrence ==
    (Advanced("binary") \/ Advanced("ternary")) => ret.collatz = ret.dash

\* a call of collatz_path_3d on its own, of either file, has returned
LoopEnded == pc = "returned" /\ caller = "collatz_path_3d"

\* the visited values other than the last one
Visited == SubSeq(vals, 1, Len(vals) - 1)

\* how many members of the sequence q leave remainder r modulo m
CountResidue(q, m, r) == Cardinality({i \in 1 .. Len(q) : q[i] % m = r})

CountTag(q, tag) == Cardinality({i \in 1 .. Len(q) : q[i] = tag})

\* k * v, exactly
Scale(k, v) ==
    IF k = 0 THEN [neg |-> FALSE, mag |-> FZero]
    ELSE [neg |-> v.neg, mag |-> Normalise(<<k * v.mag[1], k * v.mag[2], k * v.mag[3]>>)]

\* the heading when the loop has ended
Heading == HeadingAfter(angle, Len(angle), module)

LeftOf(mod) == IF mod = "dash" THEN DASH_LEFT_RAD ELSE LEFT_RAD

\* initial_heading + E * left_angle - O * right_angle as a real number
HeadingFormula ==
    LET E == CountResidue(Visited, 2, 0)
        O == CountResidue(Visited, 2, 1)
    IN  ExactSum(ExactSum(INIT_HEADING, Scale(E, LeftOf(module))),
                 fneg(Scale(O, RIGHT_RAD)))

\* the same expression evaluated in double arithmetic
HeadingFormulaRounded ==
    LET E == CountResidue(Visited, 2, 0)
        O == CountResidue(Visited, 2, 1)
        el == Scale(E, LeftOf(module))
        or == Scale(O, RIGHT_RAD)
    IN  fadd(fadd(INIT_HEADING, [neg |-> el.neg, mag |-> RoundDouble(el.mag)]),
             fneg([neg |-> or.neg, mag |-> RoundDouble(or.mag)]))

\* every turn made so far is the one the residue class of the value that was
\* current in its iteration asks for
TurnsFollowCurrent ==
    /\ Len(angle) = Len(vals) - 1
    /\ \A i \in 1 .. Len(angle) :
          IF scheme = "binary"
          THEN angle[i] = (IF vals[i] % 2 = 0 THEN "left" ELSE "right")
          ELSE /\ vals[i] % 3 = 0 => angle[i] = "left"
               /\ vals[i] % 3 = 1 => angle[i] = "right"
               /\ vals[i] % 3 = 2 => angle[i] = "half_left"

\* C11 as stated: each turn is decided by the residue class of the current
\* value, and under binary the heading after the loop equals
\* initial_heading + E*left_angle - O*right_angle.
C11_HeadingIsFormula ==
    /\ pc \in {"loop", "returned"} => TurnsFollowCurrent
    /\ (LoopEnded /\ scheme = "binary") =>
          Heading = HeadingFormula \/ Heading = HeadingFormulaRounded

\* twice the rounding the first k additions to the heading can have made:
\* one unit in the last place of each sum, in units of 2^-56
RECURSIVE RoundingBudget(_)
RoundingBudget(k) ==
    IF k = 0 THEN 0
    ELSE RoundingBudget(k - 1) + 2^ExcessBits(HeadingAfter(angle, k, module).mag)

\* C11 amended: each turn is decided by the residue class of the current
\* value (binary: +left for even, -right for odd; ternary: +left, -right,
\* +0.5*left for residues 0, 1, 2); under binary the loop makes E left and O
\* right turns, added to the heading one at a time in double arithmetic, so
\* the heading equals initial_heading + E*left_angle - O*right_angle up to
\* half a unit in the last place for each addition, not exactly.
C11_TurnsByCurrentValue ==
    /\ pc \in {"loop", "returned"} => TurnsFollowCurrent
    /\ (LoopEnded /\ scheme = "binary") =>
          /\ CountTag(angle, "left") = CountResidue(Visited, 2, 0)
          /\ CountTag(angle, "right") = CountResidue(Visited, 2, 1)
          /\ LET d == ExactSum(Heading, fneg(HeadingFormula)).mag
             IN  d[3] = 0 /\ d[2] = 0 /\ 2 * d[1] <= RoundingBudget(Len(angle))

C11_Witness ==
    /\ LoopEnded /\ module = "collatz" /\ scheme = "binary" /\ start = 3
    /\ angle = <<"right", "left", "right", "left", "left", "left", "left">>
    /\ Heading # HeadingFormula
    /\ Heading # HeadingFormulaRounded

\* C12: every trigger of update_shrub with valid inputs completes without
\* raising and returns a figure with one trace per sampled start, plus the
\* reference trace when the reference integer is smaller than max_start.
C12_RunRedraws ==
    caller = "update_shrub" =>
        /\ err = "none"
        /\ pc = "shown" =>
              traces = Len(starts) + (IF hero(scheme) < max_start THEN 1 ELSE 0)

====
